---- MODULE Spec2Model ----
(***************************************************************************)
(* pyflowgraph, flowgraph/trace: the call-rewriting AST transformers        *)
(* (TraceFunctionCalls, WrapCalls), the argument binding resolver           *)
(* (bind_arguments, two versions) and the tracing call wrapper              *)
(* (make_tracing_call_wrapper).                                             *)
(*                                                                         *)
(* Two specifications share the module:                                     *)
(*   SpecBind  the call-time side: bind_arguments and the call wrapper      *)
(*   Spec      the rewrite-time side: the transformers on a syntax tree     *)
(*             held in a heap of nodes, and the evaluation of the result    *)
(***************************************************************************)
EXTENDS Integers, Sequences, FiniteSets, TLC

VARIABLES
    \* ---- call-time side
    fun,        \* the callable handed to bind_arguments / wrapper
    args,       \* the positional arguments of the call, a tuple of objects
    kwargs,     \* the keyword arguments of the call, <<name, object>> in supplied order
    pc,         \* "ready" | "bound_trace" | "bound_transform" | "called"
    bound,      \* what bind_arguments gave: [ok, exc, map]
    outcome,    \* what the wrapper call gave: [kind, val, calls]
    observed    \* the on_call / on_return notifications of one wrapper call

VARIABLES
    \* ---- rewrite-time side
    ast_has_starred, \* the dialect: TRUE when spreads are inline (ast.Starred exists)
    heap,       \* the syntax nodes, by identity: node i is heap[i]
    heap0,      \* the heap as parsed, before any rewrite
    unit,       \* the parsed program unit (a Module node)
    twin,       \* a second parse of the same source text
    tracer,     \* TraceFunctionCalls.tracer, a Name node
    wrapperRef, \* WrapCalls.wrapper, a Name node
    stage,      \* "parsed" | "traced" | "twinned" | "ran" | "wrapped"
    out,        \* the node returned by the rewrite of unit
    out2,       \* the node returned by the rewrite of twin
    events      \* the tracer notifications of one evaluation, in order

bindVars == <<fun, args, kwargs, pc, bound, outcome, observed>>

astVars == <<ast_has_starred, heap, heap0, unit, twin, tracer, wrapperRef,
             stage, out, out2, events>>

vars == <<bindVars, astVars>>

----------------------------------------------------------------------------
(* Bounds of the call-time side *)

\* the most positional arguments of a call
MaxArgs == 2
\* the most keyword arguments of a call
MaxKwargs == 2

\* the names of the positional-or-keyword formal parameters, in declaration order
PosNames == <<"x", "y">>
\* the keyword arguments a call may give, <<name, object>>
CallKw == {<<"y", "vy">>, <<"k", "vk">>, <<"fun", "vfun">>, <<"0", "v0">>}
\* the objects passed positionally, by position
ArgObjects == <<"a1", "a2", "a3", "a4">>

----------------------------------------------------------------------------
(* Python values that appear in a binding *)

\* inspect.Parameter.empty: the parameter has no default
Empty == "<empty>"

\* a plain object
Obj(v) == [kind |-> "obj", obj |-> v, tup |-> <<>>, dct |-> <<>>]
\* the tuple bound to a *args parameter
Tup(s) == [kind |-> "tuple", obj |-> "", tup |-> s, dct |-> <<>>]
\* the dict bound to a **kwargs parameter
Dct(s) == [kind |-> "dict", obj |-> "", tup |-> <<>>, dct |-> s]

\* a formal parameter of a signature
Param(n, k, d) == [name |-> n, kind |-> k, default |-> d]

KwNames(kw) == {kw[i][1] : i \in 1..Len(kw)}

KwGet(kw, n) == kw[CHOOSE i \in 1..Len(kw) : kw[i][1] = n][2]

HasKind(params, k) == \E i \in 1..Len(params) : params[i].kind = k

PosParams(params) == SelectSeq(params, LAMBDA p : p.kind = "POSITIONAL_OR_KEYWORD")

\* a result of bind_arguments or of Signature.bind
Bound(m) == [ok |-> TRUE, exc |-> "", map |-> m]
Raised(e) == [ok |-> FALSE, exc |-> e, map |-> <<>>]

(***************************************************************************)
(* inspect.Signature.bind and BoundArguments.arguments of its result: the *)
(* parameters that were given an argument, in declaration order.  A        *)
(* parameter left to its default has no entry (only apply_defaults() adds  *)
(* one, and bind_arguments does not call it); *args has an entry when      *)
(* positionals are left over, **kwargs when keywords are left over.        *)
(* TypeError: too many positionals, a parameter given twice, a required    *)
(* parameter missing, an unexpected keyword.                               *)
(***************************************************************************)
BindCore(params, a, kw, apply_defaults) ==
    LET pos      == PosParams(params)
        np       == Len(pos)
        n        == Len(a)
        nb       == IF n < np THEN n ELSE np
        posNames == {pos[i].name : i \in 1..np}
        extraKw  == SelectSeq(kw, LAMBDA e : e[1] \notin posNames)
        tooMany  == n > np /\ ~HasKind(params, "VAR_POSITIONAL")
        multiple == \E i \in 1..nb : pos[i].name \in KwNames(kw)
        missing  == \E i \in (nb + 1)..np :
                        pos[i].name \notin KwNames(kw) /\ pos[i].default = Empty
        unexpected == Len(extraKw) > 0 /\ ~HasKind(params, "VAR_KEYWORD")
        \* <<present, name, value>> of the j-th parameter
        slot(j) ==
            LET p == params[j] IN
            CASE p.kind = "POSITIONAL_OR_KEYWORD" ->
                    IF j <= nb THEN <<TRUE, p.name, Obj(a[j])>>
                    ELSE IF p.name \in KwNames(kw)
                         THEN <<TRUE, p.name, Obj(KwGet(kw, p.name))>>
                         ELSE <<apply_defaults /\ p.default # Empty, p.name, Obj(p.default)>>
              [] p.kind = "VAR_POSITIONAL" ->
                    <<n > np, p.name, Tup(SubSeq(a, np + 1, n))>>
              [] OTHER ->
                    <<Len(extraKw) > 0, p.name, Dct(extraKw)>>
        slots    == [j \in 1..Len(params) |-> slot(j)]
        present  == SelectSeq(slots, LAMBDA s : s[1])
    IN  IF tooMany \/ multiple \/ missing \/ unexpected
        THEN Raised("TypeError")
        ELSE Bound([i \in 1..Len(present) |-> <<present[i][2], present[i][3]>>])

\* sig.bind followed by apply_defaults(): the omitted parameters get their defaults
sig_bind_apply_defaults(params, a, kw) == BindCore(params, a, kw, TRUE)

\* sig.bind( *args, **kwargs).arguments, as bind_arguments uses it
sig_bind(params, a, kw) == BindCore(params, a, kw, FALSE)

(***************************************************************************)
(* Callables.  kind:                                                        *)
(*   function        a Python function                                      *)
(*   method          a Python method bound to an instance (self = "r")      *)
(*   classmethod     a Python method bound to a class (self = "C")          *)
(*   decorated       a functools.wraps wrapper: inspect.signature follows   *)
(*                   __wrapped__ and reports params, the wrapper itself     *)
(*                   takes any positional and keyword arguments            *)
(*   builtin         a C function, no signature, __self__ None or a module  *)
(*   builtin_method  a C method, no signature, __self__ its receiver        *)
(* params are those of the underlying function (with self / cls first for   *)
(* the two method kinds); body is what the callable does once entered.      *)
(***************************************************************************)
Callable(k, ps, s, b) == [kind |-> k, params |-> ps, self |-> s, body |-> b]

ismethod(f) == f.kind \in {"method", "classmethod"}

isclass(o) == o = "C"

isModule(o) == o = "module"

\* inspect.signature(f): ValueError for a builtin without a signature; a bound
\* method's signature leaves out its first parameter
signature(f) ==
    CASE f.kind \in {"builtin", "builtin_method"} -> [ok |-> FALSE, exc |-> "ValueError", params |-> <<>>]
      [] f.kind \in {"method", "classmethod"}     -> [ok |-> TRUE, exc |-> "", params |-> Tail(f.params)]
      [] OTHER                                    -> [ok |-> TRUE, exc |-> "", params |-> f.params]

\* Python's own binding at a call of a function declared with the parameters
\* fun, *args, **kwargs: a keyword named fun collides with the first parameter
DefParams == <<Param("fun", "POSITIONAL_OR_KEYWORD", Empty),
               Param("args", "VAR_POSITIONAL", Empty),
               Param("kwargs", "VAR_KEYWORD", Empty)>>

EntersDef(a, kw) == sig_bind(DefParams, <<"<fun>">> \o a, kw).ok

\* str(i) of a small natural number
Digits == <<"0", "1", "2", "3", "4", "5", "6", "7", "8", "9">>

str(i) == Digits[i + 1]

\* OrderedDict.__setitem__: a key already present keeps its place
SetItem(m, k, v) ==
    IF \E i \in 1..Len(m) : m[i][1] = k
    THEN [i \in 1..Len(m) |-> IF m[i][1] = k THEN <<k, v>> ELSE m[i]]
    ELSE Append(m, <<k, v>>)

RECURSIVE EnumerateArgs(_, _, _)
\* for i, value in enumerate(args): arguments[str(i)] = value
EnumerateArgs(m, a, i) ==
    IF i >= Len(a) THEN m
    ELSE EnumerateArgs(SetItem(m, str(i), Obj(a[i + 1])), a, i + 1)

RECURSIVE KwargsItems(_, _, _)
\* for key, value in kwargs.items(): arguments[key] = value
KwargsItems(m, kw, i) ==
    IF i > Len(kw) THEN m
    ELSE KwargsItems(SetItem(m, kw[i][1], Obj(kw[i][2])), kw, i + 1)

\* Case 4 of both bind_arguments: synthetic positional keys, then the keywords
OpaqueArguments(a, kw) == KwargsItems(EnumerateArgs(<<>>, a, 0), kw, 1)

\* bind_arguments without its Case 1: the receiver of a bound method is not bound
bind_arguments_no_receiver(f, a, kw) ==
    IF ~EntersDef(a, kw) THEN Raised("TypeError")
    ELSE
    LET sig   == signature(f)
        case3 == f.self # "None" /\ ~isModule(f.self)
        a3    == IF case3 THEN <<f.self>> \o a ELSE a
    IN  IF sig.ok THEN sig_bind(sig.params, a, kw)
        ELSE Bound(OpaqueArguments(a3, kw))

\* flowgraph/trace/ast_trace.py, bind_arguments
ast_trace_bind_arguments(f, a, kw) ==
    IF ~EntersDef(a, kw) THEN Raised("TypeError")
    ELSE
    LET case1 == ismethod(f) /\ ~isclass(f.self)
        a1    == IF case1 THEN <<f.self>> \o a ELSE a
        f1    == IF case1 THEN Callable("function", f.params, "None", f.body) ELSE f
        sig   == signature(f1)
        case3 == f1.self # "None" /\ ~isModule(f1.self)
        a3    == IF case3 THEN <<f1.self>> \o a1 ELSE a1
    IN  IF sig.ok THEN sig_bind(sig.params, a1, kw)
        ELSE Bound(OpaqueArguments(a3, kw))

\* flowgraph/trace/ast_transform.py, bind_arguments
ast_transform_bind_arguments(f, a, kw) ==
    IF ~EntersDef(a, kw) THEN Raised("TypeError")
    ELSE
    LET sig == signature(f)
    IN  IF sig.ok THEN sig_bind(sig.params, a, kw)
        ELSE Bound(OpaqueArguments(a, kw))

\* an outcome of a call: a value returned or an exception raised, and the
\* argument lists with which the callable's body was entered
Outcome(k, v, c) == [kind |-> k, val |-> v, calls |-> c]

\* the call of fun with args and kwargs: Python binds the arguments, then the body runs
PyCall(f, a, kw) ==
    LET accepted ==
            CASE f.kind = "function" -> sig_bind(f.params, a, kw).ok
              [] f.kind \in {"method", "classmethod"} ->
                    sig_bind(f.params, <<f.self>> \o a, kw).ok
              [] OTHER -> TRUE
    IN  IF ~accepted THEN Outcome("raise", "TypeError", <<>>)
        ELSE IF f.body = "raise" THEN Outcome("raise", "Err", <<<<a, kw>>>>)
        ELSE Outcome("return", "ret", <<<<a, kw>>>>)

(***************************************************************************)
(* make_tracing_call_wrapper(on_call, on_return) and one call of the       *)
(* wrapper it returns: [out, seen], the outcome and the notifications.     *)
(* on_call / on_return are TRUE when an observer was given, FALSE for None. *)
(***************************************************************************)
wrapper(on_call, on_return, f, a, kw) ==
    IF ~EntersDef(a, kw)
    THEN [out |-> Outcome("raise", "TypeError", <<>>), seen |-> <<>>]
    ELSE
    LET arguments == ast_transform_bind_arguments(f, a, kw)
        seen1     == IF on_call THEN <<<<"on_call", arguments.map, "">>>> ELSE <<>>
        call      == PyCall(f, a, kw)
        seen2     == IF on_return
                     THEN Append(seen1, <<"on_return", arguments.map, call.val>>)
                     ELSE seen1
    IN  IF ~arguments.ok
        THEN [out |-> Outcome("raise", arguments.exc, <<>>), seen |-> <<>>]
        ELSE IF call.kind = "raise"
        THEN [out |-> call, seen |-> seen1]
        ELSE [out |-> call, seen |-> seen2]

----------------------------------------------------------------------------
(* The calls checked: callables and argument lists *)

\* the formal parameter lists: n positional-or-keyword parameters, the last d
\* with a default, then *args and **kwargs as flagged
ParamList(first, n, d, vp, vk) ==
    first
    \o [i \in 1..n |-> Param(PosNames[i], "POSITIONAL_OR_KEYWORD",
                             IF i > n - d THEN "dflt" ELSE Empty)]
    \o (IF vp THEN <<Param("args", "VAR_POSITIONAL", Empty)>> ELSE <<>>)
    \o (IF vk THEN <<Param("kwargs", "VAR_KEYWORD", Empty)>> ELSE <<>>)

ParamLists(first) ==
    {ParamList(first, nd[1], nd[2], vp, vk) :
        nd \in {x \in (0..Len(PosNames)) \X (0..Len(PosNames)) : x[2] <= x[1]},
        vp \in BOOLEAN, vk \in BOOLEAN}

SelfParam == <<Param("self", "POSITIONAL_OR_KEYWORD", Empty)>>

ClsParam == <<Param("cls", "POSITIONAL_OR_KEYWORD", Empty)>>

Callables ==
    {Callable("function", ps, "None", b) : ps \in ParamLists(<<>>), b \in {"return", "raise"}}
    \cup {Callable("decorated", ps, "None", b) : ps \in ParamLists(<<>>), b \in {"return", "raise"}}
    \cup {Callable("method", ps, "r", b) : ps \in ParamLists(SelfParam), b \in {"return", "raise"}}
    \cup {Callable("classmethod", ps, "C", b) : ps \in ParamLists(ClsParam), b \in {"return", "raise"}}
    \cup {Callable("builtin", <<>>, s, b) : s \in {"None", "module"}, b \in {"return", "raise"}}
    \cup {Callable("builtin_method", <<>>, "r", b) : b \in {"return", "raise"}}

ArgLists == {SubSeq(ArgObjects, 1, n) : n \in 0..MaxArgs}

RECURSIVE KwLists(_)
\* the keyword lists of at most n keywords, names distinct, in every order
KwLists(n) ==
    IF n = 0 THEN {<<>>}
    ELSE LET shorter == KwLists(n - 1)
         IN  shorter \cup
             {Append(kw, e) : kw \in {s \in shorter : Len(s) = n - 1},
                              e \in CallKw}

\* a dict has each key once
DistinctNames(kw) == \A i, j \in 1..Len(kw) : i # j => kw[i][1] # kw[j][1]

----------------------------------------------------------------------------
(* Syntax nodes.  A node is a record of all fields; a node type uses its    *)
(* own: Name.id, Num.n, Str.s (in id), Attribute.value/.attr (in id),       *)
(* Call.func/.args/.keywords/.starargs/.kwargs, Starred.value,              *)
(* keyword.arg (in id)/.value, Expr.value, Module.body.  Children are node  *)
(* identities; 0 is None.                                                   *)

\* the most positional argument slots of a call of the input (spreads included)
MaxPos == 2
\* the most keyword argument slots of a call of the input (spreads included)
MaxKw == 1

\* keyword.arg of an inline keyword spread
NoneArg == "<None>"

Blank == [type |-> "", id |-> "", n |-> 0, value |-> 0, func |-> 0, args |-> <<>>,
          keywords |-> <<>>, starargs |-> 0, kwargs |-> 0, body |-> <<>>]

Name(i) == [Blank EXCEPT !.type = "Name", !.id = i]

Num(k) == [Blank EXCEPT !.type = "Num", !.n = k]

Str(x) == [Blank EXCEPT !.type = "Str", !.id = x]

Attribute(v, attr) == [Blank EXCEPT !.type = "Attribute", !.value = v, !.id = attr]

Call(f, a, kw, sa, ka) ==
    [Blank EXCEPT !.type = "Call", !.func = f, !.args = a, !.keywords = kw,
                  !.starargs = sa, !.kwargs = ka]

Starred(v) == [Blank EXCEPT !.type = "Starred", !.value = v]

keyword(a, v) == [Blank EXCEPT !.type = "keyword", !.id = a, !.value = v]

Expr(v) == [Blank EXCEPT !.type = "Expr", !.value = v]

Module(b) == [Blank EXCEPT !.type = "Module", !.body = b]

\* a block [v \in {statement} |-> rest]: the statement runs to completion,
\* then the rest of the block, which sees its result as v
With(block) == block[CHOOSE v \in DOMAIN block : TRUE]

\* a newly constructed node: the heap with it, and its identity
New(h, node) == [h |-> Append(h, node), r |-> Len(h) + 1]

\* to_name(str): a new Name node
to_name(h, x) == New(h, Name(x))

\* to_attribute(value, attr): a new Attribute node on the given reference
to_attribute(h, v, attr) == New(h, Attribute(v, attr))

\* to_call(func, args, keywords, starargs, kwargs): a new Call node
to_call(h, f, a, kw, sa, ka) == New(h, Call(f, a, kw, sa, ka))

(***************************************************************************)
(* TraceFunctionCalls: the node builders.  Each gives [h, r]: the heap      *)
(* with the nodes it made, and the node it returns.                         *)
(***************************************************************************)
trace_method(h, method) == to_attribute(h, tracer, method)

\* trace_function that reports no arity: the literal is 0 whatever the call
trace_function_no_arity(h, f, nargs) ==
    With([m \in {trace_method(h, "trace_function")} |->
    With([num \in {New(m.h, Num(0))} |->
    to_call(num.h, m.r, <<f, num.r>>, <<>>, 0, 0)])])

trace_function(h, f, nargs) ==
    With([m \in {trace_method(h, "trace_function")} |->
    With([num \in {New(m.h, Num(nargs))} |->
    to_call(num.h, m.r, <<f, num.r>>, <<>>, 0, 0)])])

\* trace_argument, "Create new call": the call tracer.trace_argument(arg_value
\* [, arg_name] [, nstars=nstars])
trace_argument_call(h, arg_value, arg_name, nstars) ==
    With([s \in {IF arg_name # NoneArg /\ arg_name # ""
                 THEN New(h, Str(arg_name)) ELSE [h |-> h, r |-> 0]} |->
    With([num \in {IF nstars # 0 THEN New(s.h, Num(nstars))
                   ELSE [h |-> s.h, r |-> 0]} |->
    With([k \in {IF nstars # 0 THEN New(num.h, keyword("nstars", num.r))
                 ELSE [h |-> num.h, r |-> 0]} |->
    With([m \in {trace_method(k.h, "trace_argument")} |->
    to_call(m.h, m.r, IF s.r # 0 THEN <<arg_value, s.r>> ELSE <<arg_value>>,
            IF nstars # 0 THEN <<k.r>> ELSE <<>>, 0, 0)])])])])

\* trace_argument that leaves an inline spread as it is: the Starred argument
\* is not unpacked and the result not repacked
trace_argument_keeps_starred(h, arg_value, arg_name, nstars) ==
    trace_argument_call(h, arg_value, arg_name, nstars)

trace_argument(h, arg_value, arg_name, nstars) ==
    LET starred == ast_has_starred /\ h[arg_value].type = "Starred"
        v    == IF starred THEN h[arg_value].value ELSE arg_value
        ns   == IF starred THEN 1 ELSE nstars
    IN  With([call \in {trace_argument_call(h, v, arg_name, ns)} |->
        IF starred THEN New(call.h, Starred(call.r)) ELSE call])

trace_return(h, return_value) ==
    With([m \in {trace_method(h, "trace_return")} |->
    to_call(m.h, m.r, <<return_value>>, <<>>, 0, 0)])

RECURSIVE trace_args_reversed(_, _, _)
\* the comprehension over call.args with its results in reverse order
trace_args_reversed(h, as, i) ==
    IF i > Len(as) THEN [h |-> h, rs |-> <<>>]
    ELSE With([t \in {trace_argument(h, as[i], NoneArg, 0)} |->
         With([rest \in {trace_args_reversed(t.h, as, i + 1)} |->
         [h |-> rest.h, rs |-> rest.rs \o <<t.r>>]])])

RECURSIVE trace_args(_, _, _)
\* [ self.trace_argument(arg) for arg in call.args ], from the i-th on
trace_args(h, as, i) ==
    IF i > Len(as) THEN [h |-> h, rs |-> <<>>]
    ELSE With([t \in {trace_argument(h, as[i], NoneArg, 0)} |->
         With([rest \in {trace_args(t.h, as, i + 1)} |->
         [h |-> rest.h, rs |-> <<t.r>> \o rest.rs]])])

RECURSIVE trace_keywords(_, _, _)
\* [ ast.keyword(kw.arg, self.trace_argument(kw.value, kw.arg,
\*       2 if kw.arg is None else 0)) for kw in call.keywords ], from the i-th on
trace_keywords(h, kws, i) ==
    IF i > Len(kws) THEN [h |-> h, rs |-> <<>>]
    ELSE LET kw == h[kws[i]] IN
         With([t \in {trace_argument(h, kw.value, kw.id,
                                     IF kw.id = NoneArg THEN 2 ELSE 0)} |->
         With([k \in {New(t.h, keyword(kw.id, t.r))} |->
         With([rest \in {trace_keywords(k.h, kws, i + 1)} |->
         [h |-> rest.h, rs |-> <<k.r>> \o rest.rs]])])])

\* the part of TraceFunctionCalls.visit_Call after generic_visit: the call
\* node is read as generic_visit left it
trace_call(h, call) ==
    LET c == h[call] IN
    With([a \in {trace_args(h, c.args, 1)} |->
    With([k \in {trace_keywords(a.h, c.keywords, 1)} |->
    With([sa \in {IF ~ast_has_starred /\ c.starargs # 0
                  THEN trace_argument(k.h, c.starargs, NoneArg, 1)
                  ELSE [h |-> k.h, r |-> 0]} |->
    With([ka \in {IF ~ast_has_starred /\ c.kwargs # 0
                  THEN trace_argument(sa.h, c.kwargs, NoneArg, 2)
                  ELSE [h |-> sa.h, r |-> 0]} |->
    With([nargs \in {Len(a.rs) + Len(k.rs) + (IF sa.r # 0 THEN 1 ELSE 0)
                                           + (IF ka.r # 0 THEN 1 ELSE 0)} |->
    With([t \in {trace_function(ka.h, c.func, nargs)} |->
    With([x \in {to_call(t.h, t.r, a.rs, k.rs, sa.r, ka.r)} |->
    trace_return(x.h, x.r)])])])])])])])

\* a wrapping that passes the callee and the positionals only
wrap_call_drops_keywords(h, call) ==
    New(h, Call(wrapperRef, <<h[call].func>> \o h[call].args, <<>>, 0, 0))

\* the part of WrapCalls.visit_Call after generic_visit
wrap_call(h, call) ==
    LET c == h[call]
    IN  IF ast_has_starred
        THEN New(h, Call(wrapperRef, <<c.func>> \o c.args, c.keywords, 0, 0))
        ELSE New(h, Call(wrapperRef, <<c.func>> \o c.args, c.keywords,
                         c.starargs, c.kwargs))

(***************************************************************************)
(* ast.NodeTransformer, for the transformer T ("TraceFunctionCalls" or      *)
(* "WrapCalls").  generic_visit visits the children of a node in field      *)
(* order and stores what each visit returns back into the node itself.      *)
(***************************************************************************)
RECURSIVE visit(_, _, _)
RECURSIVE visit_list(_, _, _, _)
RECURSIVE generic_visit(_, _, _)

visit_list(T, h, ids, i) ==
    IF i > Len(ids) THEN [h |-> h, rs |-> <<>>]
    ELSE With([v \in {visit(T, h, ids[i])} |->
         With([rest \in {visit_list(T, v.h, ids, i + 1)} |->
         [h |-> rest.h, rs |-> <<v.r>> \o rest.rs]])])

visit_opt(T, h, c) == IF c = 0 THEN [h |-> h, r |-> 0] ELSE visit(T, h, c)

\* generic_visit that visits the children and stores nothing back
generic_visit_no_store(T, h, node) ==
    LET nd == h[node] IN
    CASE nd.type = "Module" -> visit_list(T, h, nd.body, 1).h
      [] nd.type \in {"Expr", "Attribute", "Starred", "keyword"} -> visit(T, h, nd.value).h
      [] nd.type = "Call" ->
            With([f \in {visit(T, h, nd.func)} |->
            With([a \in {visit_list(T, f.h, nd.args, 1)} |->
            With([k \in {visit_list(T, a.h, nd.keywords, 1)} |->
            With([s \in {visit_opt(T, k.h, nd.starargs)} |->
            visit_opt(T, s.h, nd.kwargs).h])])])])
      [] OTHER -> h

generic_visit(T, h, node) ==
    LET nd == h[node] IN
    CASE nd.type = "Module" ->
            With([b \in {visit_list(T, h, nd.body, 1)} |->
            [b.h EXCEPT ![node].body = b.rs]])
      [] nd.type \in {"Expr", "Attribute", "Starred", "keyword"} ->
            With([v \in {visit(T, h, nd.value)} |->
            [v.h EXCEPT ![node].value = v.r]])
      [] nd.type = "Call" ->
            With([f \in {visit(T, h, nd.func)} |->
            With([a \in {visit_list(T, f.h, nd.args, 1)} |->
            With([k \in {visit_list(T, a.h, nd.keywords, 1)} |->
            With([s \in {visit_opt(T, k.h, nd.starargs)} |->
            With([d \in {visit_opt(T, s.h, nd.kwargs)} |->
            [d.h EXCEPT ![node].func = f.r, ![node].args = a.rs,
                        ![node].keywords = k.rs, ![node].starargs = s.r,
                        ![node].kwargs = d.r]])])])])])
      [] OTHER -> h

\* visit_Call without its first statement: the children are not visited
visit_Call_no_descent(T, h, call) ==
    IF T = "TraceFunctionCalls" THEN trace_call(h, call) ELSE wrap_call(h, call)

\* TraceFunctionCalls.visit_Call and WrapCalls.visit_Call
visit_Call(T, h, call) ==
    With([g \in {generic_visit(T, h, call)} |->
    IF T = "TraceFunctionCalls" THEN trace_call(g, call) ELSE wrap_call(g, call)])

visit(T, h, node) ==
    IF h[node].type = "Call" THEN visit_Call(T, h, node)
    ELSE With([g \in {generic_visit(T, h, node)} |-> [h |-> g, r |-> node]])

(***************************************************************************)
(* The evaluation of a unit by the host: a call evaluates its callee, its   *)
(* positional arguments, its keyword arguments, then its explicit spreads,  *)
(* and then calls.  A call of a tracer method is a notification; its event  *)
(* names the method and the Call node that made it.                         *)
(***************************************************************************)
TracerId == "__tracer__"

WrapperId == "__wrapper__"

CallOp(h, nd) ==
    IF h[nd.func].type = "Attribute" /\ h[h[nd.func].value] = Name(TracerId)
    THEN h[nd.func].id ELSE "call"

RECURSIVE Eval(_, _)
RECURSIVE EvalList(_, _, _)

EvalList(h, ids, i) ==
    IF i > Len(ids) THEN <<>> ELSE Eval(h, ids[i]) \o EvalList(h, ids, i + 1)

EvalOpt(h, c) == IF c = 0 THEN <<>> ELSE Eval(h, c)

Eval(h, node) ==
    LET nd == h[node] IN
    CASE nd.type = "Module" -> EvalList(h, nd.body, 1)
      [] nd.type \in {"Expr", "Attribute", "Starred", "keyword"} -> Eval(h, nd.value)
      [] nd.type = "Call" ->
            Eval(h, nd.func) \o EvalList(h, nd.args, 1) \o EvalList(h, nd.keywords, 1)
            \o EvalOpt(h, nd.starargs) \o EvalOpt(h, nd.kwargs)
            \o <<[op |-> CallOp(h, nd), node |-> node]>>
      [] OTHER -> <<>>

----------------------------------------------------------------------------
(* The program units checked: syntax trees as values, and their parse into  *)
(* the heap.  An optional child is a sequence of length 0 or 1.             *)

Tree(t, i, f, a, kw, sa, ka, v, b) ==
    [type |-> t, id |-> i, func |-> f, args |-> a, keywords |-> kw,
     starargs |-> sa, kwargs |-> ka, value |-> v, body |-> b]

TName(i) == Tree("Name", i, <<>>, <<>>, <<>>, <<>>, <<>>, <<>>, <<>>)

TAttribute(v, attr) == Tree("Attribute", attr, <<>>, <<>>, <<>>, <<>>, <<>>, <<v>>, <<>>)

TStarred(v) == Tree("Starred", "", <<>>, <<>>, <<>>, <<>>, <<>>, <<v>>, <<>>)

TKeyword(a, v) == Tree("keyword", a, <<>>, <<>>, <<>>, <<>>, <<>>, <<v>>, <<>>)

TCall(f, a, kw, sa, ka) == Tree("Call", "", <<f>>, a, kw, sa, ka, <<>>, <<>>)

TExpr(v) == Tree("Expr", "", <<>>, <<>>, <<>>, <<>>, <<>>, <<v>>, <<>>)

TModule(b) == Tree("Module", "", <<>>, <<>>, <<>>, <<>>, <<>>, <<>>, b)

RECURSIVE Parse(_, _)
RECURSIVE ParseList(_, _, _)

ParseList(h, ts, i) ==
    IF i > Len(ts) THEN [h |-> h, rs |-> <<>>]
    ELSE With([t \in {Parse(h, ts[i])} |->
         With([rest \in {ParseList(t.h, ts, i + 1)} |->
         [h |-> rest.h, rs |-> <<t.r>> \o rest.rs]])])

ParseOpt(h, ts) == IF Len(ts) = 0 THEN [h |-> h, r |-> 0] ELSE Parse(h, ts[1])

\* the nodes of tree t, each a node of its own
Parse(h, t) ==
    With([f \in {ParseOpt(h, t.func)} |->
    With([a \in {ParseList(f.h, t.args, 1)} |->
    With([k \in {ParseList(a.h, t.keywords, 1)} |->
    With([s \in {ParseOpt(k.h, t.starargs)} |->
    With([d \in {ParseOpt(s.h, t.kwargs)} |->
    With([v \in {ParseOpt(d.h, t.value)} |->
    With([b \in {ParseList(v.h, t.body, 1)} |->
    New(b.h, [type |-> t.type, id |-> t.id, n |-> 0, value |-> v.r, func |-> f.r,
              args |-> a.rs, keywords |-> k.rs, starargs |-> s.r, kwargs |-> d.r,
              body |-> b.rs])])])])])])])])

RECURSIVE SeqsUpTo(_, _)
\* the sequences over S of length at most n
SeqsUpTo(S, n) ==
    IF n = 0 THEN {<<>>}
    ELSE LET shorter == SeqsUpTo(S, n - 1)
         IN  shorter \cup {Append(q, e) : q \in {x \in shorter : Len(x) = n - 1}, e \in S}

\* the leaves and the nested calls an argument or a callee may be
LeafX == TName("x")

InnerCall == TCall(TName("g"), <<>>, <<>>, <<>>, <<>>)

Values == {LeafX, InnerCall}

Callees == {TName("f"), InnerCall, TAttribute(InnerCall, "m")}

PosItems(inline) == Values \cup (IF inline THEN {TStarred(v) : v \in Values} ELSE {})

KwItems(inline) ==
    {TKeyword(n, v) : n \in {"y", "z"}, v \in Values}
    \cup (IF inline THEN {TKeyword(NoneArg, LeafX)} ELSE {})

\* a call names a keyword once
NamedOnce(kws) ==
    \A i, j \in 1..Len(kws) : (i # j /\ kws[i].id # NoneArg) => kws[i].id # kws[j].id

\* the explicit spread slots of the dialect without ast.Starred
StarArgs(inline) == IF inline THEN {<<>>} ELSE {<<>>, <<LeafX>>, <<InnerCall>>}

KwArgs(inline) == IF inline THEN {<<>>} ELSE {<<>>, <<LeafX>>}

InputCalls(inline) ==
    {TCall(f, a, kw, sa, ka) :
        f \in Callees,
        a \in SeqsUpTo(PosItems(inline), MaxPos),
        kw \in {q \in SeqsUpTo(KwItems(inline), MaxKw) : NamedOnce(q)},
        sa \in StarArgs(inline),
        ka \in KwArgs(inline)}

AstInit ==
    /\ ast_has_starred \in BOOLEAN
    /\ \E c \in InputCalls(ast_has_starred) :
          LET m  == TModule(<<TExpr(c)>>)
              u  == Parse(<<>>, m)
              tw == Parse(u.h, m)
              tr == to_name(tw.h, TracerId)
              wr == to_name(tr.h, WrapperId)
          IN  /\ heap = wr.h
              /\ heap0 = wr.h
              /\ unit = u.r
              /\ twin = tw.r
              /\ tracer = tr.r
              /\ wrapperRef = wr.r
    /\ stage = "parsed"
    /\ out = 0
    /\ out2 = 0
    /\ events = <<>>

\* TraceFunctionCalls(tracer).visit(unit)
TraceRewrite ==
    /\ stage = "parsed"
    /\ LET v == visit("TraceFunctionCalls", heap, unit)
       IN  heap' = v.h /\ out' = v.r
    /\ stage' = "traced"
    /\ UNCHANGED <<ast_has_starred, heap0, unit, twin, tracer, wrapperRef, out2, events>>

\* TraceFunctionCalls(tracer).visit(twin), the second parse of the same text
TraceTwin ==
    /\ stage = "traced"
    /\ LET v == visit("TraceFunctionCalls", heap, twin)
       IN  heap' = v.h /\ out2' = v.r
    /\ stage' = "twinned"
    /\ UNCHANGED <<ast_has_starred, heap0, unit, twin, tracer, wrapperRef, out, events>>

\* WrapCalls(wrapper).visit(unit)
WrapRewrite ==
    /\ stage = "parsed"
    /\ LET v == visit("WrapCalls", heap, unit)
       IN  heap' = v.h /\ out' = v.r
    /\ stage' = "wrapped"
    /\ UNCHANGED <<ast_has_starred, heap0, unit, twin, tracer, wrapperRef, out2, events>>

\* the host evaluates the traced unit
Evaluate ==
    /\ stage = "traced"
    /\ events' = Eval(heap, out)
    /\ stage' = "ran"
    /\ UNCHANGED <<ast_has_starred, heap, heap0, unit, twin, tracer, wrapperRef, out, out2>>

\* the call-time side stands still under Spec, the rewrite-time side under SpecBind
BindIdle ==
    /\ fun = Callable("builtin", <<>>, "None", "return")
    /\ args = <<>>
    /\ kwargs = <<>>
    /\ pc = "idle"
    /\ bound = Raised("")
    /\ outcome = Outcome("", "", <<>>)
    /\ observed = <<>>

AstIdle ==
    /\ ast_has_starred = TRUE
    /\ heap = <<>>
    /\ heap0 = <<>>
    /\ unit = 0
    /\ twin = 0
    /\ tracer = 0
    /\ wrapperRef = 0
    /\ stage = "idle"
    /\ out = 0
    /\ out2 = 0
    /\ events = <<>>

Init == AstInit /\ BindIdle

Next ==
    \/ TraceRewrite /\ UNCHANGED bindVars
    \/ TraceTwin /\ UNCHANGED bindVars
    \/ WrapRewrite /\ UNCHANGED bindVars
    \/ Evaluate /\ UNCHANGED bindVars

Spec == Init /\ [][Next]_vars

NoBound == Raised("")

NoOutcome == Outcome("", "", <<>>)

BindInit ==
    /\ fun \in Callables
    /\ args \in ArgLists
    /\ kwargs \in {kw \in KwLists(MaxKwargs) : DistinctNames(kw)}
    /\ pc = "ready"
    /\ bound = NoBound
    /\ outcome = NoOutcome
    /\ observed = <<>>
    /\ AstIdle

\* the tracer binds the arguments of a traced call: ast_trace.bind_arguments
BindTrace ==
    /\ pc = "ready"
    /\ bound' = ast_trace_bind_arguments(fun, args, kwargs)
    /\ pc' = "bound_trace"
    /\ UNCHANGED <<fun, args, kwargs, outcome, observed, astVars>>

\* ast_transform.bind_arguments on the same call
BindTransform ==
    /\ pc = "ready"
    /\ bound' = ast_transform_bind_arguments(fun, args, kwargs)
    /\ pc' = "bound_transform"
    /\ UNCHANGED <<fun, args, kwargs, outcome, observed, astVars>>

\* one call of the wrapper made by make_tracing_call_wrapper(on_call, on_return)
WrapperCall ==
    /\ pc = "ready"
    /\ \E on_call \in BOOLEAN, on_return \in BOOLEAN :
          LET w == wrapper(on_call, on_return, fun, args, kwargs)
          IN  /\ outcome' = w.out
              /\ observed' = w.seen
    /\ pc' = "called"
    /\ UNCHANGED <<fun, args, kwargs, bound, astVars>>

BindNext == BindTrace \/ BindTransform \/ WrapperCall

SpecBind == BindInit /\ [][BindNext]_vars

----------------------------------------------------------------------------
(* Claims about the call-time side *)

Introspectable == {"function", "decorated", "method", "classmethod"}

\* the formal parameters bind_arguments binds against, and the positional
\* arguments it binds: the receiver of an instance method comes first
EffParams == IF fun.kind = "classmethod" THEN Tail(fun.params) ELSE fun.params

EffArgs == IF fun.kind = "method" THEN <<fun.self>> \o args ELSE args

EffPosNames == {EffParams[j].name : j \in {i \in 1..Len(EffParams) :
                    EffParams[i].kind = "POSITIONAL_OR_KEYWORD"}}

\* the j-th formal parameter was given an argument by the call
Given(j) ==
    LET p == EffParams[j] IN
    CASE p.kind = "POSITIONAL_OR_KEYWORD" -> j <= Len(EffArgs) \/ p.name \in KwNames(kwargs)
      [] p.kind = "VAR_POSITIONAL" -> Len(EffArgs) > Cardinality(EffPosNames)
      [] OTHER -> \E i \in 1..Len(kwargs) : kwargs[i][1] \notin EffPosNames

\* the j-th formal parameter was omitted by the call and has a default
Defaulted(j) == ~Given(j) /\ EffParams[j].default # Empty

\* the keys of a mapping, in order
Keys(m) == [i \in 1..Len(m) |-> m[i][1]]

NamesOf(ps) == [i \in 1..Len(ps) |-> ps[i].name]

ParamIndexes == [i \in 1..Len(EffParams) |-> i]

\* the names of the parameters chosen by idx, in declaration order
PickNames(idx) == [i \in 1..Len(idx) |-> EffParams[idx[i]].name]

GivenNames == PickNames(SelectSeq(ParamIndexes, Given))

GivenOrDefaultedNames ==
    PickNames(SelectSeq(ParamIndexes, LAMBDA j : Given(j) \/ Defaulted(j)))

BoundIntrospectable ==
    pc = "bound_trace" /\ fun.kind \in Introspectable /\ bound.ok

\* C1 (as claimed): a call through the wrapper has the outcome of the direct
\* call: the same value returned or failure raised, the callable entered once
\* with the same arguments.
C1_Transparent ==
    pc = "called" => outcome = PyCall(fun, args, kwargs)

\* C5 (as claimed): for an introspectable callable and arguments that bind,
\* the mapping has, in declaration order, one entry per formal parameter that
\* was given an argument or has a default, an omitted parameter with a
\* default being present with its default value.
C5_DefaultsFilled ==
    BoundIntrospectable =>
        /\ Keys(bound.map) = GivenOrDefaultedNames
        /\ \A j \in 1..Len(EffParams) : Defaulted(j) =>
              \E i \in 1..Len(bound.map) :
                  bound.map[i] = <<EffParams[j].name, Obj(EffParams[j].default)>>

\* C5 (amended): for an introspectable callable and arguments that bind, the
\* mapping has, in declaration order, exactly one entry per formal parameter
\* that was given an argument by the call, with the value given; a parameter
\* that was omitted and has a default has no entry.
C5_BindingComplete ==
    BoundIntrospectable =>
        /\ Keys(bound.map) = GivenNames
        /\ \A j \in 1..Len(EffParams) : Defaulted(j) =>
              \A i \in 1..Len(bound.map) : bound.map[i][1] # EffParams[j].name
        /\ \A i \in 1..Len(bound.map) :
              \A j \in 1..Len(EffParams) :
                  (EffParams[j].name = bound.map[i][1]
                   /\ EffParams[j].kind = "POSITIONAL_OR_KEYWORD") =>
                      bound.map[i][2] = Obj(IF j <= Len(EffArgs) THEN EffArgs[j]
                                            ELSE KwGet(kwargs, EffParams[j].name))

\* a call that omits a parameter with a default was bound
C5_Witness ==
    /\ BoundIntrospectable
    /\ \E j \in 1..Len(EffParams) : Defaulted(j)
    /\ Len(bound.map) > 0

\* C6 (as claimed): for a callable without a signature bind_arguments does not
\* fail and returns len(args) + len(kwargs) entries: the keys "0", "1", ... for
\* the positionals in call order, then the keyword names in supplied order.
C6_OpaqueFallback ==
    (pc \in {"bound_trace", "bound_transform"} /\ ~signature(fun).ok) =>
        /\ bound.ok
        /\ Len(bound.map) = Len(args) + Len(kwargs)
        /\ \A i \in 1..Len(args) : bound.map[i] = <<str(i - 1), Obj(args[i])>>
        /\ \A j \in 1..Len(kwargs) :
              bound.map[Len(args) + j] = <<kwargs[j][1], Obj(kwargs[j][2])>>

\* C7: for a method bound to an instance, the receiver is bound to the first
\* formal parameter of the underlying function and the supplied positionals to
\* the ones after it, so a method (self, x) called with one argument a1 gives
\* {"self": r, "x": a1}; for a method bound to a class the receiver is not
\* in the mapping.
C7_ReceiverInjection ==
    (pc = "bound_trace" /\ bound.ok) =>
        /\ fun.kind = "method" =>
              /\ Len(bound.map) >= 1
              /\ bound.map[1] = <<fun.params[1].name, Obj(fun.self)>>
              /\ (Len(PosParams(fun.params)) = 2 /\ Len(fun.params) = 2
                  /\ args = <<ArgObjects[1]>> /\ kwargs = <<>>) =>
                    bound.map = << <<"self", Obj(fun.self)>>,
                                   <<fun.params[2].name, Obj(ArgObjects[1])>> >>
        /\ fun.kind = "classmethod" =>
              \A i \in 1..Len(bound.map) :
                  /\ bound.map[i][1] # fun.params[1].name
                  /\ bound.map[i][2] # Obj(fun.self)

\* the method (self, x) of receiver r was bound to one positional argument
C7_Witness ==
    /\ pc = "bound_trace"
    /\ fun.kind = "method"
    /\ NamesOf(fun.params) = <<"self", "x">>
    /\ args = <<ArgObjects[1]>>
    /\ kwargs = <<>>
    /\ Keys(bound.map) = <<"self", "x">>

----------------------------------------------------------------------------
(* Claims about the rewrite-time side.  heap0 is the heap as parsed, heap   *)
(* the heap as it is now; the nodes 1..unit are the input unit, the nodes   *)
(* above Len(heap0) the ones a rewrite made.                                *)

Range(s) == {s[i] : i \in 1..Len(s)}

Traced == stage \in {"traced", "ran", "twinned"}

Fresh == (Len(heap0) + 1)..Len(heap)

\* the call expressions of the input unit
UnitCalls == {c \in 1..unit : heap0[c].type = "Call"}

\* node x is a call of the tracer method m
IsTracerCall(x, m) ==
    /\ x # 0
    /\ heap[x].type = "Call"
    /\ heap[heap[x].func] = Attribute(tracer, m)

\* node t is the call tracer.trace_function(F, n) where F is the callee of the
\* input call c
IsFunctionCall(t, c) ==
    /\ IsTracerCall(t, "trace_function")
    /\ Len(heap[t].args) = 2
    /\ heap[t].args[1] = heap[c].func

FunctionCalls(c) == {t \in Fresh : IsFunctionCall(t, c)}

\* node x is an instrumented call of the input call c:
\* tracer.trace_function(F, n)(...)
IsSite(x, c) == heap[x].type = "Call" /\ IsFunctionCall(heap[x].func, c)

Sites(c) == {x \in Fresh : IsSite(x, c)}

\* the calls tracer.trace_return(X) on an instrumented call X of c
Returns(c) ==
    {r \in Fresh : /\ IsTracerCall(r, "trace_return")
                   /\ Len(heap[r].args) = 1
                   /\ IsSite(heap[r].args[1], c)
                   /\ heap[r].keywords = <<>>}

\* what stands for the input expression a after the rewrite: a call is
\* replaced by its trace_return call, any other expression stays the node it is
Rewritten(a) == IF heap0[a].type = "Call" THEN Returns(a) ELSE {a}

\* the arity literal of the instrumented call x
Arity(x) == heap[heap[heap[x].func].args[2]].n

\* the positional slots of the input call c that are inline spreads, and the others
SpreadSlots(c) ==
    {i \in 1..Len(heap0[c].args) : heap0[heap0[c].args[i]].type = "Starred"}

PlainSlots(c) == (1..Len(heap0[c].args)) \ SpreadSlots(c)

\* the keyword slots of c that are inline spreads ( **kw ), and the named ones
KwSpreadSlots(c) ==
    {j \in 1..Len(heap0[c].keywords) : heap0[heap0[c].keywords[j]].id = NoneArg}

NamedSlots(c) == (1..Len(heap0[c].keywords)) \ KwSpreadSlots(c)

\* the positional and the keyword spreads of c, in either representation
PositionalSpreads(c) ==
    Cardinality(SpreadSlots(c)) + (IF heap0[c].starargs # 0 THEN 1 ELSE 0)

KeywordSpreads(c) ==
    Cardinality(KwSpreadSlots(c)) + (IF heap0[c].kwargs # 0 THEN 1 ELSE 0)

\* C2 (as claimed): the arity literal of every rewritten call site is
\* p + k + s1 + s2, for p positional arguments, k keyword arguments and the
\* flags s1, s2 in {0,1} of a positional and a keyword spread being present.
C2_ArityFlags ==
    Traced =>
        \A c \in UnitCalls : \A x \in Sites(c) :
            Arity(x) = Cardinality(PlainSlots(c)) + Cardinality(NamedSlots(c))
                       + (IF PositionalSpreads(c) > 0 THEN 1 ELSE 0)
                       + (IF KeywordSpreads(c) > 0 THEN 1 ELSE 0)

\* C2 (amended): the arity literal of every rewritten call site is a number,
\* p + k + the number of positional spreads + the number of keyword spreads
\* of the call, each spread counting one, in both spread representations; a
\* call without arguments reports 0.
C2_ArityInvariant ==
    Traced =>
        \A c \in UnitCalls :
            /\ Cardinality(Sites(c)) = 1
            /\ \A x \in Sites(c) :
                  /\ heap[heap[heap[x].func].args[2]].type = "Num"
                  /\ Arity(x) = Cardinality(PlainSlots(c)) + Cardinality(NamedSlots(c))
                                + PositionalSpreads(c) + KeywordSpreads(c)
                  /\ (heap0[c].args = <<>> /\ heap0[c].keywords = <<>>
                      /\ heap0[c].starargs = 0 /\ heap0[c].kwargs = 0) => Arity(x) = 0

\* a call with two inline positional spreads was rewritten and reports 2
C2_Witness ==
    /\ Traced
    /\ \E c \in UnitCalls :
          /\ Cardinality(SpreadSlots(c)) = 2
          /\ \E x \in Sites(c) : Arity(x) = 2

\* node x is the call tracer.trace_argument(v [, name] [, nstars=ns]) on one
\* of the values vs; name "" is no name, ns 0 is no nstars
IsArgumentCall(x, vs, name, ns) ==
    /\ IsTracerCall(x, "trace_argument")
    /\ IF name = "" THEN Len(heap[x].args) = 1
       ELSE Len(heap[x].args) = 2 /\ heap[heap[x].args[2]] = Str(name)
    /\ heap[x].args[1] \in vs
    /\ IF ns = 0 THEN heap[x].keywords = <<>>
       ELSE /\ Len(heap[x].keywords) = 1
            /\ heap[heap[x].keywords[1]].type = "keyword"
            /\ heap[heap[x].keywords[1]].id = "nstars"
            /\ heap[heap[heap[x].keywords[1]].value] = Num(ns)
    /\ heap[x].starargs = 0
    /\ heap[x].kwargs = 0

\* slot x of the rewritten call is an optional explicit spread of nstars ns
\* standing for the input slot a
IsSpreadSlot(x, a, ns) ==
    IF a = 0 THEN x = 0 ELSE IsArgumentCall(x, Rewritten(a), "", ns)

At(n) == {e \in 1..Len(events) : events[e].node = n}

\* the expression in a positional slot: the spread expression of a Starred
Inner(a) == IF heap0[a].type = "Starred" THEN heap0[a].value ELSE a

\* the argument expressions of the input call c, the positionals in source
\* order and then the keywords in declaration order
ArgNodes(c) ==
    LET o == heap0[c]
    IN  [i \in 1..Len(o.args) |-> Inner(o.args[i])]
        \o [j \in 1..Len(o.keywords) |-> heap0[o.keywords[j]].value]

\* the explicit spread expressions of the input call c
SpreadNodes(c) == {heap0[c].starargs, heap0[c].kwargs} \ {0}

\* the calls tracer.trace_argument(v, ...) on the input expression a
ArgumentCalls(a) ==
    {x \in Fresh : /\ IsTracerCall(x, "trace_argument")
                   /\ Len(heap[x].args) >= 1
                   /\ heap[x].args[1] \in Rewritten(a)}

RECURSIVE Struct(_, _)
\* the tree under node n as a value, without the identities of its nodes
Struct(h, n) ==
    IF n = 0 THEN <<>>
    ELSE LET nd == h[n]
         IN  [type |-> nd.type, id |-> nd.id, n |-> nd.n,
              value |-> Struct(h, nd.value), func |-> Struct(h, nd.func),
              args |-> [i \in 1..Len(nd.args) |-> Struct(h, nd.args[i])],
              keywords |-> [i \in 1..Len(nd.keywords) |-> Struct(h, nd.keywords[i])],
              starargs |-> Struct(h, nd.starargs), kwargs |-> Struct(h, nd.kwargs),
              body |-> [i \in 1..Len(nd.body) |-> Struct(h, nd.body[i])]]

\* C8 (as claimed): after the rewrite every node of the input unit has the
\* fields and children it had, the rewritten unit is a new tree, and two
\* rewrites of the same input give structurally identical outputs.
C8_Pure ==
    /\ Traced => /\ \A n \in 1..unit : heap[n] = heap0[n]
                 /\ out \notin 1..Len(heap0)
    /\ stage = "twinned" => Struct(heap, out) = Struct(heap, out2)

\* child slot a1 of a node stands for what it held as parsed, a0
SlotKept(a0, a1) == IF a0 = 0 THEN a1 = 0 ELSE a1 \in Rewritten(a0)

ListKept(s0, s1) ==
    /\ Len(s1) = Len(s0)
    /\ \A i \in 1..Len(s0) : s1[i] \in Rewritten(s0[i])

\* input node n is the node it was, with every call among its children
\* replaced in the node itself by that call's trace_return call
NodeInPlace(n) ==
    LET o == heap0[n]
        m == heap[n]
    IN  /\ m.type = o.type /\ m.id = o.id /\ m.n = o.n
        /\ SlotKept(o.value, m.value)
        /\ SlotKept(o.func, m.func)
        /\ ListKept(o.args, m.args)
        /\ ListKept(o.keywords, m.keywords)
        /\ SlotKept(o.starargs, m.starargs)
        /\ SlotKept(o.kwargs, m.kwargs)
        /\ ListKept(o.body, m.body)

\* C8 (amended): the rewrite works on the input tree itself: it returns the
\* root node it was given, and every node of the input unit keeps its identity
\* and its own fields while each child slot that held a call holds that call's
\* trace_return call afterwards; nodes outside the unit are not touched; the
\* rewrites of two separate parses of the same text give structurally
\* identical outputs.
C8_InPlace ==
    /\ Traced => /\ out = unit
                 /\ \A n \in 1..unit : NodeInPlace(n)
    /\ stage \in {"traced", "ran"} =>
          \A n \in (unit + 1)..Len(heap0) : heap[n] = heap0[n]
    /\ stage = "twinned" => /\ out2 = twin
                            /\ Struct(heap, out) = Struct(heap, out2)

\* both parses were rewritten, and a node of the input unit is not what it was
C8_Witness ==
    /\ stage = "twinned"
    /\ out = unit
    /\ \E n \in 1..unit : heap[n] # heap0[n]
    /\ Struct(heap, out) = Struct(heap, out2)

\* the calls wrapperRef(F, ...) where F is the callee of the input call c
WrapSites(c) ==
    {w \in Fresh : /\ heap[w].type = "Call"
                   /\ heap[w].func = wrapperRef
                   /\ Len(heap[w].args) >= 1
                   /\ heap[w].args[1] = heap[c].func}

\* what stands for the input expression a after WrapCalls
Wrapped(a) == IF heap0[a].type = "Call" THEN WrapSites(a) ELSE {a}

WrappedSlot(a0, a1) == IF a0 = 0 THEN a1 = 0 ELSE a1 \in Wrapped(a0)

\* C9: for every call site F(args...) WrapCalls produces one call whose callee
\* is the wrapper reference, whose first positional argument is the callee F
\* and whose other positional, keyword and spread arguments are the ones of
\* the call in their order, none wrapped and none dropped, in both spread
\* representations; only calls of the input are wrapped.
C9_WrapCalls ==
    stage = "wrapped" =>
        /\ heap[wrapperRef] = Name(WrapperId)
        /\ Cardinality({w \in Fresh : heap[w].type = "Call"}) = Cardinality(UnitCalls)
        /\ \A c \in UnitCalls :
              /\ Cardinality(WrapSites(c)) = 1
              /\ \A w \in WrapSites(c) :
                    LET o == heap0[c]
                        n == heap[w]
                    IN  /\ Len(n.args) = Len(o.args) + 1
                        /\ n.args[1] \in Wrapped(o.func)
                        /\ \A i \in 1..Len(o.args) :
                              /\ n.args[i + 1] \in Wrapped(o.args[i])
                              /\ heap[n.args[i + 1]].type = "Starred" =>
                                    heap[n.args[i + 1]].value
                                        \in Wrapped(heap0[o.args[i]].value)
                        /\ n.keywords = o.keywords
                        /\ \A j \in 1..Len(o.keywords) :
                              /\ heap[o.keywords[j]].id = heap0[o.keywords[j]].id
                              /\ heap[o.keywords[j]].value
                                    \in Wrapped(heap0[o.keywords[j]].value)
                        /\ WrappedSlot(o.starargs, n.starargs)
                        /\ WrappedSlot(o.kwargs, n.kwargs)

\* a call with a positional and a keyword argument was wrapped
C9_Witness ==
    /\ stage = "wrapped"
    /\ \E c \in UnitCalls :
          /\ Len(heap0[c].args) >= 1
          /\ Len(heap0[c].keywords) >= 1
          /\ \E w \in WrapSites(c) : Len(heap[w].keywords) >= 1

\* the children of a node
Children(nd) ==
    ({nd.value, nd.func, nd.starargs, nd.kwargs}
     \cup Range(nd.args) \cup Range(nd.keywords) \cup Range(nd.body)) \ {0}

RECURSIVE Inside(_, _)
\* the nodes of the tree under node n
Inside(h, n) == {n} \cup UNION {Inside(h, k) : k \in Children(h[n])}

\* C10: the rewrite ends, and every call expression of the input is
\* instrumented exactly once: it has one instrumented call and one
\* trace_return call on it, the bare call is no longer in the unit, a call
\* nested in the callee or in an argument of another call is instrumented
\* inside the instrumented enclosing call, and no call the rewrite created is
\* instrumented in turn: there are as many trace_function calls as input
\* calls and none is on a tracer method.
C10_BottomUpOnce ==
    stage \in {"traced", "ran"} =>
        /\ \A c \in UnitCalls :
              /\ Cardinality(Sites(c)) = 1
              /\ Cardinality(Returns(c)) = 1
              /\ c \notin Inside(heap, out)
        /\ \A c \in UnitCalls : \A d \in (UnitCalls \cap Inside(heap0, c)) \ {c} :
              \A x \in Sites(c) : Returns(d) \cap Inside(heap, x) # {}
        /\ Cardinality({t \in Fresh : IsTracerCall(t, "trace_function")})
              = Cardinality(UnitCalls)
        /\ \A t \in Fresh :
              (IsTracerCall(t, "trace_function")
               /\ heap[heap[t].args[1]].type = "Attribute") =>
                  heap[heap[t].args[1]].value # tracer

\* a call nested in an argument of another call was instrumented, inside the
\* instrumented enclosing call
C10_Witness ==
    /\ stage = "traced"
    /\ \E c \in UnitCalls : \E i \in 1..Len(heap0[c].args) :
          /\ heap0[heap0[c].args[i]].type = "Call"
          /\ \E x \in Sites(c) : Returns(heap0[c].args[i]) \cap Inside(heap, x) # {}

====
